---- MODULE Spec2Model ----
(***************************************************************************)
(* Model of mongoose-fuzzy-searching (src/index.js): the n-gram token      *)
(* generator (nGrams, makeNGrams, replaceSymbols), the plugin activation   *)
(* (validation, createFields), the write hooks (createNGrams), the         *)
(* toObject/toJSON transform (removeFuzzyElements) and fuzzySearch.        *)
(*                                                                         *)
(* Encoding of JavaScript values.  A text is a sequence of one-character   *)
(* strings; a JavaScript value is a record tagged with its type:           *)
(*   [type |-> "undefined"], [type |-> "number", num |-> n],               *)
(*   [type |-> "string", chars |-> text], [type |-> "array", elems |-> s], *)
(*   [type |-> "object", ...own properties...].                            *)
(* An object property is present iff its name is in the record's DOMAIN.   *)
(* A boolean parameter that the code only ever tests for truthiness is a   *)
(* BOOLEAN carrying that truthiness (undefined is FALSE).  Attribute names *)
(* are TLA+ strings, joined with \o as the template literals join them.    *)
(* A call that may throw yields [threw |-> TRUE, error |-> e] or           *)
(* [threw |-> FALSE, value |-> v].  A JavaScript array or Set is a         *)
(* sequence (a Set keeps insertion order and has no repeated member).      *)
(***************************************************************************)
EXTENDS Integers, Sequences, FiniteSets, TLC

VARIABLES call, options, plugin, schema, stored, out

vars == <<call, options, plugin, schema, stored, out>>

---------------------------------------------------------------------------
(* Bounds *)

MaxLen == 3

MaxMinSize == 3

MaxDocLen == 2

MaxLabelLen == 1

MaxElems == 1

---------------------------------------------------------------------------
(* JavaScript values *)

DEFAULT_MIN_SIZE == 2

DEFAULT_PREFIX_ONLY == FALSE

UndefinedVal == [type |-> "undefined"]

Num(n) == [type |-> "number", num |-> n]

Str(s) == [type |-> "string", chars |-> s]

\* A string used as an attribute name (a field item, a keys value).
Name(n) == [type |-> "string", str |-> n]

Arr(s) == [type |-> "array", elems |-> s]

Throw(e) == [threw |-> TRUE, error |-> e]

Return(v) == [threw |-> FALSE, value |-> v]

Truthy(v) ==
  CASE v.type = "undefined" -> FALSE
    [] v.type = "number" -> v.num # 0
    [] v.type = "string" -> IF "chars" \in DOMAIN v THEN v.chars # <<>>
                            ELSE v.str # ""
    [] OTHER -> TRUE

Min(a, b) == IF a <= b THEN a ELSE b

Max(a, b) == IF a >= b THEN a ELSE b

Range(s) == {s[i] : i \in 1..Len(s)}

\* String.prototype.slice(start, end): negative offsets count from the end,
\* offsets are clamped to the length.
slice(s, start, end) ==
  LET n == Len(s)
      from == IF start < 0 THEN Max(n + start, 0) ELSE Min(start, n)
      to == IF end < 0 THEN Max(n + end, 0) ELSE Min(end, n)
  IN SubSeq(s, from + 1, to)

\* The alphabet: two lower-case letters, an upper-case letter, a character
\* of the punctuation class, the underscore and the space.
Chars == {"a", "b", "A", ".", "_", " "}

LowerChar(c) == IF c = "A" THEN "a" ELSE c

toLowerCase(s) == [i \in 1..Len(s) |-> LowerChar(s[i])]

\* The character class of the regular expression in replaceSymbols (its
\* backquote has no string literal here; the alphabet does not contain it).
SpecialChars ==
  {"!", "\"", "#", "%", "&", "'", "(", ")", "*", "+", ",", "-", ".", "/",
   ":", ";", "<", "=", ">", "?", "@", "[", "\\", "]", "^", "{", "|",
   "}", "~"}

RECURSIVE RemoveSpecial(_)
RemoveSpecial(s) ==
  IF s = <<>> THEN <<>>
  ELSE IF s[1] \in SpecialChars THEN RemoveSpecial(Tail(s))
  ELSE <<s[1]>> \o RemoveSpecial(Tail(s))

UnderscoreToSpace(s) == [i \in 1..Len(s) |-> IF s[i] = "_" THEN " " ELSE s[i]]

replaceSymbols(text, escapeSpecialCharacters) ==
  LET lowered == toLowerCase(text)
      stripped == IF escapeSpecialCharacters THEN RemoveSpecial(lowered)
                  ELSE lowered
  IN UnderscoreToSpace(stripped)

\* Set.prototype.add on an insertion-ordered Set.
SetAdd(set, x) == IF x \in Range(set) THEN set ELSE Append(set, x)

\* Mutant of Dedupe: the concatenated array is returned as it is.
DedupeKeepsRepeats(s) == s

RECURSIVE Dedupe(_)
\* Array.from(new Set(result))
Dedupe(s) ==
  IF s = <<>> THEN <<>>
  ELSE SetAdd(Dedupe(SubSeq(s, 1, Len(s) - 1)), s[Len(s)])

RECURSIVE PrefixLoopStopsEarly(_, _, _, _)
\* Mutant of PrefixLoop: the loop stops before the whole word is added.
PrefixLoopStopsEarly(text, index, minSize, set) ==
  IF minSize < Len(text)
  THEN PrefixLoopStopsEarly(text, index, minSize + 1,
                            SetAdd(set, slice(text, index, index + minSize)))
  ELSE set

RECURSIVE PrefixLoop(_, _, _, _)
\* while (minSize < text.length + 1) { set.add(slice); minSize++ }
PrefixLoop(text, index, minSize, set) ==
  IF minSize < Len(text) + 1
  THEN PrefixLoop(text, index, minSize + 1,
                  SetAdd(set, slice(text, index, index + minSize)))
  ELSE set

RECURSIVE SubstringLoopLateDecrement(_, _, _, _)
\* Mutant of SubstringLoop: slice(index--, index + minSize), the offset is
\* decremented after it is read.
SubstringLoopLateDecrement(text, index, minSize, set) ==
  IF minSize <= Len(text) + 1
  THEN IF index # 0
       THEN SubstringLoopLateDecrement(text, index - 1, minSize,
              SetAdd(set, slice(text, index, (index - 1) + minSize)))
       ELSE SubstringLoopLateDecrement(text, Len(text) - (minSize + 1) + 1,
                                       minSize + 1, set)
  ELSE set

RECURSIVE SubstringLoop(_, _, _, _)
\* while (minSize <= text.length + 1) { if (index !== 0) add slice(--index,
\* index + minSize) else { minSize++; index = text.length - minSize + 1 } }
SubstringLoop(text, index, minSize, set) ==
  IF minSize <= Len(text) + 1
  THEN IF index # 0
       THEN SubstringLoop(text, index - 1, minSize,
              SetAdd(set, slice(text, index - 1, (index - 1) + minSize)))
       ELSE SubstringLoop(text, Len(text) - (minSize + 1) + 1, minSize + 1, set)
  ELSE set

\* text is the string replaceSymbols returned; minSize is a JavaScript value.
nGrams(text, minSize, prefixOnly) ==
  LET size == IF minSize.type = "undefined" THEN DEFAULT_MIN_SIZE
              ELSE minSize.num
  IN IF size <= 0 THEN Throw("Error")
     ELSE IF text = <<>> THEN Return(<<>>)
     ELSE LET lowered == toLowerCase(text)
              index == IF prefixOnly THEN 0 ELSE Len(lowered) - size + 1
          IN IF Len(lowered) <= size THEN Return(<<lowered>>)
             ELSE IF ~prefixOnly /\ index < 1 THEN Return(<<>>)
             ELSE IF prefixOnly
                  THEN Return(PrefixLoop(lowered, index, size, <<>>))
                  ELSE Return(SubstringLoop(lowered, index, size, <<>>))

RECURSIVE split(_, _)
\* String.prototype.split(separator) for a one-character separator.
split(s, sep) ==
  IF \E i \in 1..Len(s) : s[i] = sep
  THEN LET i == CHOOSE k \in 1..Len(s) :
                  s[k] = sep /\ \A j \in 1..(k - 1) : s[j] # sep
       IN <<SubSeq(s, 1, i - 1)>> \o split(SubSeq(s, i + 1, Len(s)), sep)
  ELSE <<s>>

RECURSIVE Flatten(_)
\* reduce(function(acc, arr) { return acc.concat(arr) }, [])
Flatten(arrs) ==
  IF arrs = <<>> THEN <<>>
  ELSE Flatten(SubSeq(arrs, 1, Len(arrs) - 1)) \o arrs[Len(arrs)]

\* text and minSize are JavaScript values.
makeNGrams(text, escapeSpecialCharacters, minSize, prefixOnly) ==
  IF ~Truthy(text) THEN Return(<<>>)
  ELSE IF text.type # "string" THEN Throw("TypeError")
  ELSE LET words == split(text.chars, " ")
           mapped == [i \in 1..Len(words) |->
                        nGrams(replaceSymbols(words[i], escapeSpecialCharacters),
                               IF Truthy(minSize) THEN minSize
                               ELSE Num(DEFAULT_MIN_SIZE),
                               prefixOnly \/ DEFAULT_PREFIX_ONLY)]
       IN IF \E i \in 1..Len(words) : mapped[i].threw
          THEN Throw("Error")
          ELSE Return(Dedupe(Flatten([i \in 1..Len(words) |-> mapped[i].value])))

---------------------------------------------------------------------------
(* The plugin: field items, schema, documents *)

NoProps == [k \in {} |-> TRUE]

\* obj[key], undefined when the property is absent.
Get(obj, key) == IF key \in DOMAIN obj THEN obj[key] ELSE UndefinedVal

\* The truthiness of a boolean property (absent is undefined, falsy).
Flag(obj, key) == IF key \in DOMAIN obj THEN obj[key] ELSE FALSE

isObject(obj) == obj.type = "object" /\ (DOMAIN obj \ {"type"}) # {}

isString(item) == item.type = "string"

isArray(v) == v.type = "array"

\* `${name}_fuzzy`
Fuzzy(name) == name \o "_fuzzy"

EmptySchema == [paths |-> {}, indexes |-> {}, weights |-> NoProps]

\* One iteration of the forEach of createFields; acc carries the schema's
\* added paths and the local indexes and weights.
createFieldsItem(item, acc) ==
  IF isString(item)
  THEN [acc EXCEPT !.paths = @ \cup {Fuzzy(item.str)},
                   !.indexes = @ \cup {Fuzzy(item.str)}]
  ELSE IF isObject(item)
  THEN IF Truthy(Get(item, "keys"))
       THEN IF ~isArray(item.keys)
            THEN [acc EXCEPT !.threw = TRUE]
            ELSE [acc EXCEPT
                    !.indexes = @ \cup {Fuzzy(item.name) \o "." \o Fuzzy(key) :
                                          key \in Range(item.keys.elems)},
                    !.paths = @ \cup {Fuzzy(item.name)}]
       ELSE [acc EXCEPT
               !.paths = @ \cup {Fuzzy(item.name)},
               !.indexes = @ \cup {Fuzzy(item.name)},
               !.weights = IF Truthy(Get(item, "weight"))
                           THEN (Fuzzy(item.name) :> item.weight.num) @@ @
                           ELSE @]
  ELSE [acc EXCEPT !.threw = TRUE]

RECURSIVE createFieldsLoop(_, _, _)
createFieldsLoop(fields, i, acc) ==
  IF acc.threw \/ i > Len(fields) THEN acc
  ELSE createFieldsLoop(fields, i + 1, createFieldsItem(fields[i], acc))

\* The schema after createFields, or the throw that interrupts it (the paths
\* added before the throw stay; schema.index is not reached).
createFields(sch, fields) ==
  LET acc == createFieldsLoop(fields, 1,
               [threw |-> FALSE, paths |-> sch.paths, indexes |-> {},
                weights |-> NoProps])
  IN IF acc.threw
     THEN [threw |-> TRUE, error |-> "TypeError",
           schema |-> [sch EXCEPT !.paths = acc.paths]]
     ELSE [threw |-> FALSE,
           schema |-> [paths |-> acc.paths, indexes |-> acc.indexes,
                       weights |-> acc.weights]]

\* The checks of module.exports before createFields.
validateOptions(opts) ==
  IF ~Truthy(opts) \/ ~Truthy(Get(opts, "fields")) THEN Throw("Error")
  ELSE IF ~isArray(opts.fields) THEN Throw("TypeError")
  ELSE IF \E i \in 1..Len(opts.fields.elems) :
            LET item == opts.fields.elems[i]
            IN /\ isObject(item)
               /\ Truthy(Get(item, "keys"))
               /\ ~isArray(item.keys)
               /\ ~isString(item.keys)
       THEN Throw("TypeError")
       ELSE Return(TRUE)

\* The token arrays one array element gets: one `${key}_fuzzy` per key.
NestedTokens(data, item, escapeSpecialCharacters) ==
  [k \in {Fuzzy(key) : key \in Range(item.keys.elems)} |->
     LET key == CHOOSE q \in Range(item.keys.elems) : Fuzzy(q) = k
     IN makeNGrams(Get(data, key), escapeSpecialCharacters,
                   Get(item, "minSize"), Flag(item, "prefixOnly"))]

\* One iteration of the forEach of createNGrams over the field items.
createNGramsItem(item, acc) ==
  IF isString(item) /\ Truthy(Get(acc.value, item.str))
  THEN LET r == makeNGrams(acc.value[item.str], FALSE, UndefinedVal, FALSE)
       IN IF r.threw THEN Throw(r.error)
          ELSE Return((Fuzzy(item.str) :> Arr(r.value)) @@ acc.value)
  ELSE IF isObject(item)
  THEN LET escapeSpecialCharacters ==
             IF "escapeSpecialCharacters" \in DOMAIN item
             THEN item.escapeSpecialCharacters # FALSE
             ELSE TRUE
       IN IF Truthy(Get(item, "keys")) /\ Truthy(Get(acc.value, item.name))
          THEN IF \/ ~isArray(acc.value[item.name])
                  \/ (acc.value[item.name].elems # <<>> /\ ~isArray(item.keys))
               THEN Throw("TypeError")
               ELSE LET elems == acc.value[item.name].elems
                        toks == [i \in 1..Len(elems) |->
                                   NestedTokens(elems[i], item,
                                                escapeSpecialCharacters)]
                    IN IF \E i \in 1..Len(elems) :
                            \E k \in DOMAIN toks[i] : toks[i][k].threw
                       THEN Throw("Error")
                       ELSE Return(
                              (Fuzzy(item.name) :>
                                 Arr([i \in 1..Len(elems) |->
                                        [k \in DOMAIN toks[i] |->
                                           Arr(toks[i][k].value)]
                                        @@ [type |-> "object"]]))
                              @@ acc.value)
          ELSE IF Truthy(Get(acc.value, item.name))
          THEN LET r == makeNGrams(acc.value[item.name],
                                   escapeSpecialCharacters,
                                   Get(item, "minSize"),
                                   Flag(item, "prefixOnly"))
               IN IF r.threw THEN Throw(r.error)
                  ELSE Return((Fuzzy(item.name) :> Arr(r.value)) @@ acc.value)
          ELSE acc
  ELSE acc

RECURSIVE createNGramsLoop(_, _, _)
createNGramsLoop(fields, i, acc) ==
  IF acc.threw \/ i > Len(fields) THEN acc
  ELSE createNGramsLoop(fields, i + 1, createNGramsItem(fields[i], acc))

\* The attributes after createNGrams has written the fuzzy attributes into
\* them, or the throw of the token generator.
createNGrams(attributes, fields) ==
  createNGramsLoop(fields, 1, Return(attributes))

\* delete ret[k]
Delete(ret, k) == [a \in DOMAIN ret \ {k} |-> ret[a]]

RECURSIVE removeFuzzyLoop(_, _, _)
removeFuzzyLoop(fields, i, ret) ==
  IF i > Len(fields) THEN ret
  ELSE removeFuzzyLoop(fields, i + 1,
         IF isString(fields[i]) THEN Delete(ret, Fuzzy(fields[i].str))
         ELSE IF isObject(fields[i]) THEN Delete(ret, Fuzzy(fields[i].name))
         ELSE ret)

RECURSIVE removeFuzzyOfNamesLoop(_, _, _)
removeFuzzyOfNamesLoop(fields, i, ret) ==
  IF i > Len(fields) THEN ret
  ELSE removeFuzzyOfNamesLoop(fields, i + 1,
         IF isString(fields[i]) THEN Delete(ret, Fuzzy(fields[i].str))
         ELSE ret)

\* Mutant of removeFuzzyElements: only the items given as plain names are
\* handled, the object items are skipped.
removeFuzzyOfNamesOnly(fields, ret) == removeFuzzyOfNamesLoop(fields, 1, ret)

\* The transform installed for toObject and toJSON.
removeFuzzyElements(fields, ret) == removeFuzzyLoop(fields, 1, ret)

RECURSIVE join(_, _)
\* Array.prototype.join(separator)
join(arr, sep) ==
  IF arr = <<>> THEN <<>>
  ELSE IF Len(arr) = 1 THEN arr[1]
  ELSE join(SubSeq(arr, 1, Len(arr) - 1), sep) \o sep \o arr[Len(arr)]

\* fuzzySearch up to the request it hands to Model.find(...).where(search):
\* the throw, or the token array, the $search expression joined from it and
\* the extra filter.  args is the arguments array (callbacks left out).
fuzzySearch(args) ==
  LET first == IF Len(args) >= 1 THEN args[1] ELSE UndefinedVal
      second == IF Len(args) >= 2 THEN args[2] ELSE UndefinedVal
  IN IF Len(args) = 0 /\ (first.type # "string" \/ ~isObject(first))
     THEN Throw("TypeError")
     ELSE LET queryString == IF isObject(first) THEN Get(first, "query")
                             ELSE first
              checkPrefixOnly == IF isObject(first)
                                 THEN Flag(first, "prefixOnly")
                                 ELSE DEFAULT_PREFIX_ONLY
              defaultNgamMinSize == IF isObject(first)
                                    THEN Get(first, "minSize")
                                    ELSE Num(DEFAULT_MIN_SIZE)
              tokens == makeNGrams(queryString, FALSE, defaultNgamMinSize,
                                   checkPrefixOnly)
          IN IF tokens.threw THEN Throw(tokens.error)
             ELSE [threw |-> FALSE, value |-> tokens.value,
                   search |-> join(tokens.value, <<" ">>),
                   options |-> IF Truthy(second) /\ isObject(second)
                               THEN second ELSE UndefinedVal]

---------------------------------------------------------------------------
(* Input universes *)

TextsUpTo(n) == UNION {[1..k -> Chars] : k \in 0..n}

Texts == TextsUpTo(MaxLen)

MinSizes == {UndefinedVal} \cup {Num(n) : n \in (-1)..MaxMinSize}

NoCall == [fn |-> "none", done |-> TRUE]

NGramsCalls ==
  {[fn |-> "nGrams", done |-> FALSE, text |-> text, minSize |-> minSize,
    prefixOnly |-> prefixOnly] :
     text \in Texts, minSize \in MinSizes, prefixOnly \in BOOLEAN}

MakeNGramsCalls ==
  {[fn |-> "makeNGrams", done |-> FALSE, text |-> text,
    escapeSpecialCharacters |-> escapeSpecialCharacters,
    minSize |-> minSize, prefixOnly |-> prefixOnly] :
     text \in {UndefinedVal} \cup {Str(t) : t \in Texts},
     escapeSpecialCharacters \in BOOLEAN,
     minSize \in MinSizes, prefixOnly \in BOOLEAN}

---------------------------------------------------------------------------
(* Token generation called directly: the arguments are drawn by InitTokens, *)
(* the action applies the function to them.                                 *)

CallNGrams ==
  /\ call.fn = "nGrams" /\ ~call.done
  /\ call' = [fn |-> "nGrams", done |-> TRUE, text |-> call.text,
              minSize |-> call.minSize, prefixOnly |-> call.prefixOnly,
              result |-> nGrams(call.text, call.minSize, call.prefixOnly)]
  /\ UNCHANGED <<options, plugin, schema, stored, out>>

CallMakeNGrams ==
  /\ call.fn = "makeNGrams" /\ ~call.done
  /\ call' = [fn |-> "makeNGrams", done |-> TRUE, text |-> call.text,
              escapeSpecialCharacters |-> call.escapeSpecialCharacters,
              minSize |-> call.minSize, prefixOnly |-> call.prefixOnly,
              result |-> makeNGrams(call.text, call.escapeSpecialCharacters,
                                    call.minSize, call.prefixOnly)]
  /\ UNCHANGED <<options, plugin, schema, stored, out>>

InitTokens ==
  /\ call \in NGramsCalls \cup MakeNGramsCalls
  /\ options = UndefinedVal
  /\ plugin = "none"
  /\ schema = EmptySchema
  /\ stored = NoProps
  /\ out = [op |-> "none"]

NextTokens == CallNGrams \/ CallMakeNGrams

SpecTokens == InitTokens /\ [][NextTokens]_vars

---------------------------------------------------------------------------
(* The plugin on one schema and one document of its collection *)

DocChars == {"a", ".", "_"}

DocTexts == UNION {[1..k -> DocChars] : k \in 0..MaxDocLen}

LabelChars == {"a", "_"}

LabelTexts == UNION {[1..k -> LabelChars] : k \in 0..MaxLabelLen}

Object(props) == [type |-> "object"] @@ props

\* { name: "title", minSize?, prefixOnly?, escapeSpecialCharacters? }
PlainObjectItems ==
  {Object([name |-> "title"] @@ m) :
     m \in {NoProps, [minSize |-> Num(0)], [minSize |-> Num(1)],
            [minSize |-> Num(-1)], [escapeSpecialCharacters |-> FALSE],
            [minSize |-> Num(1), prefixOnly |-> TRUE]}}

\* { name: "tags", keys: ... } with a list, a single string or a number.
NestedItems ==
  {Object([name |-> "tags", keys |-> k]) :
     k \in {Arr(<<"label">>), Name("label"), Num(5)}}

FieldLists ==
  {<<Name("title")>>, <<Name("bio_fuzzy")>>,
   <<Object([name |-> "title", weight |-> Num(2)])>>,
   <<Name("title"), Num(5)>>, <<Num(5)>>}
  \cup {<<item>> : item \in PlainObjectItems \cup NestedItems}

OptionsChoices ==
  {UndefinedVal, Object([language_override |-> Name("dummy")]),
   Object([fields |-> Name("title")])}
  \cup {Object([fields |-> Arr(fields)]) : fields \in FieldLists}

SourceName(item) == IF isString(item) THEN item.str ELSE item.name

\* The values a document may hold in the source attribute of an item: a
\* text, or for an item with keys an array of sub-records with those keys.
SourceValues(item) ==
  IF isObject(item) /\ "keys" \in DOMAIN item
  THEN IF isArray(item.keys)
       THEN LET elements == {Object(f) :
                               f \in [Range(item.keys.elems) ->
                                        {Str(t) : t \in LabelTexts}]}
            IN {Arr(a) : a \in UNION {[1..n -> elements] : n \in 0..MaxElems}}
       ELSE {Arr(<<>>)}
  ELSE {Str(t) : t \in DocTexts}

NamedItems(fields) ==
  {fields[i] : i \in {j \in 1..Len(fields) :
                        fields[j].type \in {"string", "object"}}}

\* The attribute sets a caller may propose: none of the source attributes,
\* or one of them with one of its values.
Payloads(fields) ==
  {NoProps} \cup UNION {{SourceName(item) :> v : v \in SourceValues(item)} :
                           item \in NamedItems(fields)}

Fields == options.fields.elems

\* module.exports(schema, options): the checks, createFields, then the
\* transform, the hooks and the static are registered.
Plugin ==
  /\ plugin = "none"
  /\ LET checked == validateOptions(options)
         created == createFields(schema, options.fields.elems)
     IN IF checked.threw
        THEN /\ plugin' = "threw"
             /\ schema' = schema
             /\ out' = [op |-> "plugin", threw |-> TRUE, error |-> checked.error]
        ELSE /\ plugin' = IF created.threw THEN "threw" ELSE "installed"
             /\ schema' = created.schema
             /\ out' = IF created.threw
                       THEN [op |-> "plugin", threw |-> TRUE,
                             error |-> created.error]
                       ELSE [op |-> "plugin", threw |-> FALSE]
  /\ UNCHANGED <<call, options, stored>>

\* The pre("save") hook on a document carrying the proposed attributes, and
\* the write that follows when the hook does not throw.
Save ==
  /\ plugin = "installed"
  /\ \E attrs \in Payloads(Fields) :
       LET doc == attrs @@ stored @@ ("_id" :> Num(1))
           hooked == createNGrams(doc, Fields)
       IN /\ stored' = IF hooked.threw THEN stored ELSE hooked.value
          /\ out' = [op |-> "write", threw |-> hooked.threw]
  /\ UNCHANGED <<call, options, plugin, schema>>

\* What an update hook and the write after it do with the payload _update.
ApplyUpdate(update) ==
  LET hooked == createNGrams(update, Fields)
  IN /\ stored' = IF hooked.threw THEN stored ELSE hooked.value @@ stored
     /\ out' = [op |-> "write", threw |-> hooked.threw]

\* The pre("update") hook and the update of the stored document.
Update ==
  /\ plugin = "installed"
  /\ stored # NoProps
  /\ \E update \in Payloads(Fields) : ApplyUpdate(update)
  /\ UNCHANGED <<call, options, plugin, schema>>

\* The pre("findOneAndUpdate") hook and the update of the stored document.
FindOneAndUpdate ==
  /\ plugin = "installed"
  /\ stored # NoProps
  /\ \E update \in Payloads(Fields) : ApplyUpdate(update)
  /\ UNCHANGED <<call, options, plugin, schema>>

\* toObject / toJSON of the stored document through the transform.
ToObject ==
  /\ plugin = "installed"
  /\ stored # NoProps
  /\ out' = [op |-> "toObject", ret |-> removeFuzzyElements(Fields, stored)]
  /\ UNCHANGED <<call, options, plugin, schema, stored>>

InitPlugin ==
  /\ call = NoCall
  /\ options \in OptionsChoices
  /\ plugin = "none"
  /\ schema = EmptySchema
  /\ stored = NoProps
  /\ out = [op |-> "none"]

NextDocument == Plugin \/ Update \/ FindOneAndUpdate \/ Save \/ ToObject

SpecDocument == InitPlugin /\ [][NextDocument]_vars

---------------------------------------------------------------------------
(* The search static *)

\* The first argument: nothing, a string, a query object or a number.
QueryArguments ==
  {<<>>, <<Num(5)>>}
  \cup {<<Str(t)>> : t \in DocTexts}
  \cup {<<Object(q @@ m @@ p)>> :
          q \in {NoProps} \cup {[query |-> Str(t)] : t \in DocTexts},
          m \in {NoProps, [minSize |-> Num(0)], [minSize |-> Num(1)],
                 [minSize |-> Num(-1)]},
          p \in {[prefixOnly |-> FALSE], [prefixOnly |-> TRUE]}}

\* With or without an extra filter object as second argument.
SearchArguments ==
  QueryArguments
  \cup {<<Str(t), Object([active |-> TRUE])>> : t \in DocTexts}

FuzzySearch ==
  /\ plugin = "installed"
  /\ \E args \in SearchArguments :
       out' = [op |-> "fuzzySearch", args |-> args, result |-> fuzzySearch(args)]
  /\ UNCHANGED <<call, options, plugin, schema, stored>>

NextSearch == Plugin \/ FuzzySearch

SpecSearch == InitPlugin /\ [][NextSearch]_vars

---------------------------------------------------------------------------
(* Properties of token generation (checked under SpecTokens) *)

NoDup(s) == \A i, j \in 1..Len(s) : s[i] = s[j] => i = j

\* All contiguous substrings of t whose length is at least n.
Substrings(t, n) ==
  {u \in {SubSeq(t, i, j) : i \in 1..Len(t), j \in 1..Len(t)} : Len(u) >= n}

\* The prefixes t[0:L] for L in [n, length(t)].
Prefixes(t, n) == {SubSeq(t, 1, L) : L \in n..Len(t)}

NGramsDone == call.fn = "nGrams" /\ call.done

MakeNGramsDone == call.fn = "makeNGrams" /\ call.done

\* C1: for a non-empty text and 1 <= minSize <= length(text), nGrams in
\* substring mode returns exactly the substrings of the lower-cased text of
\* length >= minSize, each of a length in [minSize, length(text)].
C1_SubstringsExact ==
  (/\ NGramsDone
   /\ ~call.prefixOnly
   /\ call.text # <<>>
   /\ call.minSize.type = "number"
   /\ call.minSize.num >= 1
   /\ call.minSize.num <= Len(call.text))
  => /\ ~call.result.threw
     /\ Range(call.result.value)
          = Substrings(toLowerCase(call.text), call.minSize.num)
     /\ \A g \in Range(call.result.value) :
          Len(g) >= call.minSize.num /\ Len(g) <= Len(call.text)

\* C1 witness: the substring loop has run over a text longer than minSize,
\* with an upper-case letter in it.
C1_Witness ==
  /\ NGramsDone
  /\ ~call.prefixOnly
  /\ call.minSize = Num(2)
  /\ call.text = <<"a", "A", "b">>
  /\ Len(call.result.value) = 3

\* C3 as stated: in prefix mode, for every text and every minSize >= 1,
\* nGrams returns exactly the prefixes of length minSize..length(text), and
\* so nothing when the text is shorter than minSize.
C3_Original ==
  (/\ NGramsDone
   /\ call.prefixOnly
   /\ call.minSize.type = "number"
   /\ call.minSize.num >= 1)
  => /\ ~call.result.threw
     /\ Range(call.result.value)
          = Prefixes(toLowerCase(call.text), call.minSize.num)

\* C3 amended: in prefix mode, for minSize >= 1, nGrams returns exactly the
\* prefixes of length minSize..length(text) when the text is empty or at
\* least minSize long, and the whole lower-cased text as the only token when
\* the text is non-empty and shorter than minSize.
C3_PrefixesOrShortWord ==
  (/\ NGramsDone
   /\ call.prefixOnly
   /\ call.minSize.type = "number"
   /\ call.minSize.num >= 1)
  => /\ ~call.result.threw
     /\ Range(call.result.value)
          = IF call.text # <<>> /\ Len(call.text) < call.minSize.num
            THEN {toLowerCase(call.text)}
            ELSE Prefixes(toLowerCase(call.text), call.minSize.num)

\* C3 witness: the prefix loop has run and produced two prefixes.
C3_Witness ==
  /\ NGramsDone
  /\ call.prefixOnly
  /\ call.minSize = Num(2)
  /\ call.text = <<"A", "b", "a">>
  /\ call.result = Return(<<<<"a", "b">>, <<"a", "b", "a">>>>)

\* C7 as stated, on a non-empty text: token generation with minSize <= 0
\* fails with an error, through nGrams and through makeNGrams alike (a
\* non-positive minSize is never replaced by the default).
C7_NonPositiveMinSizeThrows ==
  (/\ call.done
   /\ call.fn \in {"nGrams", "makeNGrams"}
   /\ (call.fn = "nGrams" => call.text # <<>>)
   /\ (call.fn = "makeNGrams" => call.text.type = "string" /\ Truthy(call.text))
   /\ call.minSize.type = "number"
   /\ call.minSize.num <= 0)
  => call.result.threw

\* The non-empty maximal space-free runs of a text: its words.
Words(t) ==
  {w \in Substrings(t, 1) :
     /\ \A k \in 1..Len(w) : w[k] # " "
     /\ \E i \in 1..Len(t) :
          /\ i + Len(w) - 1 <= Len(t)
          /\ SubSeq(t, i, i + Len(w) - 1) = w
          /\ (i = 1 \/ t[i - 1] = " ")
          /\ (i + Len(w) - 1 = Len(t) \/ t[i + Len(w)] = " ")}

\* C8: for a minSize that is positive or left out, makeNGrams(text) is, as a
\* set, the union over the words w of the text of
\* nGrams(replaceSymbols(w)), it has no repeated token, and whenever
\* text = a + " " + b it is makeNGrams(a) union makeNGrams(b).
C8_UnionOfWords ==
  (/\ MakeNGramsDone
   /\ call.text.type = "string"
   /\ ~call.result.threw)
  => /\ NoDup(call.result.value)
     /\ (call.minSize.type = "undefined" \/ call.minSize.num >= 1)
        => Range(call.result.value)
             = UNION {Range(nGrams(replaceSymbols(w, call.escapeSpecialCharacters),
                                   call.minSize, call.prefixOnly).value) :
                        w \in Words(call.text.chars)}
     /\ \A i \in 1..Len(call.text.chars) :
          call.text.chars[i] = " "
          => LET a == makeNGrams(Str(SubSeq(call.text.chars, 1, i - 1)),
                                 call.escapeSpecialCharacters,
                                 call.minSize, call.prefixOnly)
                 b == makeNGrams(Str(SubSeq(call.text.chars, i + 1,
                                            Len(call.text.chars))),
                                 call.escapeSpecialCharacters,
                                 call.minSize, call.prefixOnly)
             IN /\ ~a.threw
                /\ ~b.threw
                /\ Range(call.result.value) = Range(a.value) \cup Range(b.value)

\* C8 witness: two words sharing a token have been tokenized.
C8_Witness ==
  /\ MakeNGramsDone
  /\ call.text = Str(<<"a", " ", "A">>)
  /\ call.minSize = Num(1)
  /\ call.result = Return(<<<<"a">>>>)

---------------------------------------------------------------------------
(* Properties of the plugin (checked under SpecDocument and SpecSearch) *)

Installed == plugin = "installed"

\* The tokens stored in attribute k of a record (none when it is absent).
TokensAt(rec, k) == IF k \in DOMAIN rec THEN Range(rec[k].elems) ELSE {}

\* The first argument of a search for text with the parameters of an item:
\* the text itself for a plain name, else a query object carrying the
\* item's minSize and prefixOnly.
QueryFor(item, text) ==
  IF isString(item) THEN <<text>>
  ELSE <<Object([query |-> text]
                @@ (IF "minSize" \in DOMAIN item
                    THEN [minSize |-> item.minSize] ELSE NoProps)
                @@ (IF "prefixOnly" \in DOMAIN item
                    THEN [prefixOnly |-> item.prefixOnly] ELSE NoProps))>>

\* The tokens a search builds for text agree with the stored tokens.
SameAsQuery(item, text, tokens) ==
  LET q == fuzzySearch(QueryFor(item, text))
  IN ~q.threw => Range(q.value) = tokens

IsNested(item) == isObject(item) /\ Truthy(Get(item, "keys"))

\* C2 as stated: for every field item left at its default
\* escapeSpecialCharacters and every text its source attribute holds, the
\* tokens fuzzySearch builds from a query equal to that text, with the
\* item's minSize and prefixOnly, are the tokens stored in the fuzzy field.
C2_QueryTokensEqualIndexTokens ==
  (Installed /\ out.op = "write")
  => \A item \in NamedItems(Fields) :
       LET v == Get(stored, SourceName(item))
       IN ("escapeSpecialCharacters" \notin DOMAIN item /\ Truthy(v))
          => IF IsNested(item)
             THEN \A i \in 1..Len(v.elems) :
                    \A key \in Range(item.keys.elems) :
                      SameAsQuery(item, Get(v.elems[i], key),
                                  TokensAt(stored[Fuzzy(item.name)].elems[i],
                                           Fuzzy(key)))
             ELSE SameAsQuery(item, v,
                              TokensAt(stored, Fuzzy(SourceName(item))))

HasUnderscore(text) == \E i \in 1..Len(text) : text[i] = "_"

\* C4 as stated: a nested value with an underscore is stored as the tokens
\* of the text with the underscore turned into a space (its words
\* tokenized one by one and united), and no stored token contains a space.
C4_UnderscoreSplitsWords ==
  (Installed /\ out.op = "write")
  => \A item \in {it \in NamedItems(Fields) : IsNested(it)} :
       LET v == Get(stored, item.name)
       IN Truthy(v)
          => \A i \in 1..Len(v.elems) :
               \A key \in Range(item.keys.elems) :
                 LET data == Get(v.elems[i], key)
                     tokens == TokensAt(stored[Fuzzy(item.name)].elems[i],
                                        Fuzzy(key))
                 IN (data.type = "string" /\ HasUnderscore(data.chars))
                    => /\ tokens
                            = Range(makeNGrams(Str(UnderscoreToSpace(data.chars)),
                                      TRUE, Get(item, "minSize"),
                                      Flag(item, "prefixOnly")).value)
                       /\ \A g \in tokens : \A j \in 1..Len(g) : g[j] # " "

\* The field lists with exactly one item, a nested one whose keys has the
\* given type.
KeysOfType(type) ==
  /\ isObject(options)
  /\ "fields" \in DOMAIN options
  /\ isArray(options.fields)
  /\ Len(Fields) = 1
  /\ isObject(Fields[1])
  /\ "keys" \in DOMAIN Fields[1]
  /\ Fields[1].keys.type = type

\* C6 as stated: a nested item whose keys is a single string is accepted,
\* the activation completes and registers the one index entry
\* <name>_fuzzy.<key>_fuzzy; a keys that is neither a string nor a list is
\* rejected.
C6_StringKeysAccepted ==
  plugin # "none"
  => /\ KeysOfType("string")
        => /\ plugin = "installed"
           /\ schema.indexes
                = {Fuzzy(Fields[1].name) \o "." \o Fuzzy(Fields[1].keys.str)}
     /\ KeysOfType("number") => plugin = "threw"

AttributeNames == {"_id", "title", "bio", "tags", "label"}

\* The attribute names ending in _fuzzy, among the names a document of the
\* model can carry (source names and their synthetic names).
EndsInFuzzy(k) ==
  k \in {Fuzzy(n) : n \in AttributeNames \cup {Fuzzy(m) : m \in AttributeNames}}

SyntheticNames == {Fuzzy(SourceName(item)) : item \in NamedItems(Fields)}

\* The serialized document carries the synthetic attribute of every field.
SerializedWithSynthetic ==
  out.op = "toObject" /\ SyntheticNames \subseteq DOMAIN stored

TokensOfStored(item, text) ==
  IF isString(item) THEN makeNGrams(text, FALSE, UndefinedVal, FALSE)
  ELSE makeNGrams(text,
                  IF "escapeSpecialCharacters" \in DOMAIN item
                  THEN item.escapeSpecialCharacters ELSE TRUE,
                  Get(item, "minSize"), Flag(item, "prefixOnly"))

\* C10 as stated: after any creates and updates, the stored fuzzy field of
\* every item holds the tokenizer result for the stored value of its source
\* attribute (an unwritten fuzzy field counts as the empty token set).
C10_FuzzyNeverStale ==
  Installed
  => \A item \in NamedItems(Fields) :
       LET v == Get(stored, SourceName(item))
           f == Fuzzy(SourceName(item))
       IN IF IsNested(item)
          THEN v.type = "array"
               => /\ f \in DOMAIN stored
                  /\ Len(stored[f].elems) = Len(v.elems)
                  /\ \A i \in 1..Len(v.elems) :
                       \A key \in Range(item.keys.elems) :
                         LET r == TokensOfStored(item, Get(v.elems[i], key))
                         IN ~r.threw
                            => TokensAt(stored[f].elems[i], Fuzzy(key))
                                 = Range(r.value)
          ELSE v.type = "string"
               => LET r == TokensOfStored(item, v)
                  IN ~r.threw => TokensAt(stored, f) = Range(r.value)

\* The query string of a search is empty or missing.
QueryMissing(args) ==
  \/ Len(args) = 0
  \/ /\ Len(args) >= 1
     /\ \/ args[1].type \notin {"string", "object"}
        \/ args[1].type = "string" /\ ~Truthy(args[1])
        \/ args[1].type = "object" /\ ~Truthy(Get(args[1], "query"))

\* C5 as stated: fuzzySearch fails with an error, and issues no request,
\* whenever the query string is empty or missing.
C5_MissingQueryThrows ==
  (out.op = "fuzzySearch" /\ QueryMissing(out.args)) => out.result.threw

====
